---------------------------- MODULE Spec2Model ----------------------------
(***************************************************************************)
(* A model of commpy/channelcoding/ldpc.py: get_ldpc_code_params, which    *)
(* builds the index structures of a Tanner graph from a code description,  *)
(* and ldpc_bp_decode, the sum-product decoder that runs on them.          *)
(*                                                                         *)
(* Numbers.  The decoder computes in IEEE-754 binary64.  The model keeps   *)
(* the three special values (NaN, +Inf, -Inf) exactly as IEEE-754 defines  *)
(* them and represents a finite value in fixed point, ONE units to 1.0,    *)
(* rounding every operation toward zero.  np.tanh and np.arctanh are       *)
(* tabulated at steps of 1/8.  binary64 rounds tanh(z) to exactly 1.0 only *)
(* for |z| > 19; the model does the same (TANH_SAT) and maps every smaller *)
(* argument to a value below 1.0.  Signed zeros are not distinguished.     *)
(***************************************************************************)
EXTENDS Integers, Sequences, FiniteSets

VARIABLES
    \* ---- get_ldpc_code_params ----
    bpc,              \* position in get_ldpc_code_params
    desc,             \* what has been read of the design file
    vnode_adj_list,   \* 2-D array, n_vnodes x max_vnode_deg
    cnode_adj_list,   \* 2-D array, n_cnodes x max_cnode_deg
    cnode_vnode_map,  \* 2-D array, n_cnodes x max_cnode_deg
    vnode_cnode_map,  \* 2-D array, n_vnodes x max_vnode_deg
    berr,             \* the exception get_ldpc_code_params raised, or "none"
    \* ---- ldpc_bp_decode ----
    pc,               \* position in ldpc_bp_decode
    params,           \* ldpc_code_params, the dictionary the builder returned
    llr_vec,          \* argument: sequence of floats
    n_iters,          \* argument
    iter_cnt,         \* loop variable of the main loop (-1 before the loop)
    todo,             \* nodes of the current phase not yet processed
    vnode_msgs,       \* flattened, stride max_vnode_deg
    cnode_msgs,       \* flattened, stride max_cnode_deg
    dec_word,         \* int array
    out_llrs,         \* int array (np.zeros(n_vnodes, int))
    err,              \* the exception ldpc_bp_decode raised, or "none"
    snap              \* the arrays as they were when the check-node phase
                      \* (snap.cphase) and the variable-node phase
                      \* (snap.vphase) of the current iteration began

bvars == <<bpc, desc, vnode_adj_list, cnode_adj_list, cnode_vnode_map,
           vnode_cnode_map, berr>>
dvars == <<pc, llr_vec, n_iters, iter_cnt, todo, vnode_msgs,
           cnode_msgs, dec_word, out_llrs, err, snap>>
vars == <<bvars, params, dvars>>

-----------------------------------------------------------------------------
(* Bounds of the model *)

\* n_vnodes ranges over 1..MaxV, n_cnodes over 1..MaxC in decode runs
MaxV == 3
MaxC == 2
\* n_iters ranges over 0..MaxIters
MaxIters == 2
\* a description read by the builder has at most MaxNodes nodes in all
MaxNodes == 3
\* max_vnode_deg and max_cnode_deg range over 1..MaxDeg; a declared degree
\* and a row's token count range over 0..MaxDeg+1
MaxDeg == 2

-----------------------------------------------------------------------------
(* Small helpers *)

Min(S) == CHOOSE x \in S : \A y \in S : x <= y
Max(S) == CHOOSE x \in S : \A y \in S : x >= y
Abs(n) == IF n < 0 THEN -n ELSE n
Sgn(n) == IF n < 0 THEN -1 ELSE IF n > 0 THEN 1 ELSE 0

\* Sequences over S of length lo..hi
SeqsOf(S, lo, hi) == UNION {[1..n -> S] : n \in lo..hi}

-----------------------------------------------------------------------------
(* get_ldpc_code_params (ldpc.py lines 14-83).                             *)
(* Arrays are functions over 0-based indices.  A numpy operation yields a  *)
(* record [err, val]: err is "none" or the exception it raises.            *)

Ok(v) == [err |-> "none", val |-> v]
Raise(e) == [err |-> e, val |-> 0]

\* -np.ones([n, max_deg], int): every slot holds the sentinel -1
MinusOnes(n, max_deg) == [r \in 0..(n-1) |-> [s \in 0..(max_deg-1) |-> -1]]

\* len(row[0:deg]) for a row of max_deg slots: the slice stops at the row's end
SliceLen(max_deg, deg) == IF deg < max_deg THEN deg ELSE max_deg

\* row[0:deg] = np.array([int(x)-1 for x in line.split('\t')])
\* tokens are the integers of the line (1-based node indices); an empty line
\* yields int('') and a ValueError; an array whose length is neither 1 nor
\* that of the slice cannot be broadcast into it (ValueError).
AssignRow(max_deg, deg, tokens) ==
    LET sl == SliceLen(max_deg, deg)
    IN  IF Len(tokens) = 0 THEN Raise("ValueError")
        ELSE IF Len(tokens) = sl
             THEN Ok([s \in 0..(max_deg-1) |->
                        IF s < sl THEN tokens[s+1] - 1 ELSE -1])
        ELSE IF Len(tokens) = 1
             THEN Ok([s \in 0..(max_deg-1) |->
                        IF s < sl THEN tokens[1] - 1 ELSE -1])
        ELSE Raise("ValueError")

\* other_list[adj_other[node, :] == self], then the assignment of the result
\* to one slot of the map.  node is an index read from the own adjacency
\* row: numpy takes -1 as the last row and raises IndexError from n_other
\* up.  The boolean mask selects, from np.arange(list_len), the positions
\* of its True entries (IndexError at a position beyond the list); only an
\* array of exactly one element can be stored into the slot (ValueError).
\* (MapEntryOwnIndex is the variant that stores the node's own index,
\* not the position of the matching slot.)
MapEntryOwnIndex(adj_other, n_other, list_len, node, self) ==
    IF node >= n_other \/ node < -n_other THEN Raise("IndexError")
    ELSE LET row == adj_other[IF node < 0 THEN node + n_other ELSE node]
             pos == {p \in DOMAIN row : row[p] = self}
         IN  IF \E p \in pos : p >= list_len THEN Raise("IndexError")
             ELSE IF Cardinality(pos) # 1 THEN Raise("ValueError")
             ELSE Ok(self)

MapEntry(adj_other, n_other, list_len, node, self) ==
    IF node >= n_other \/ node < -n_other THEN Raise("IndexError")
    ELSE LET row == adj_other[IF node < 0 THEN node + n_other ELSE node]
             pos == {p \in DOMAIN row : row[p] = self}
         IN  IF \E p \in pos : p >= list_len THEN Raise("IndexError")
             ELSE IF Cardinality(pos) # 1 THEN Raise("ValueError")
             ELSE Ok(CHOOSE p \in pos : TRUE)

\* The two loops of lines 54-60, for either side: for every node of the own
\* side and every slot of adj_own[node, 0:deg], one MapEntry.  The first
\* entry (in loop order) that raises ends the loop.
DeriveMap(adj_own, n_own, max_own, deg_own, adj_other, n_other) ==
    LET live(n) == SliceLen(max_own, deg_own[n])
        ent(n, i) == MapEntry(adj_other, n_other, n_own, adj_own[n][i], n)
        bad == {k \in 0..(n_own*max_own - 1) :
                  /\ (k % max_own) < live(k \div max_own)
                  /\ ent(k \div max_own, k % max_own).err # "none"}
    IN  IF bad # {}
        THEN Raise(ent(Min(bad) \div max_own, Min(bad) % max_own).err)
        ELSE Ok([n \in 0..(n_own-1) |-> [i \in 0..(max_own-1) |->
                   IF i < live(n) THEN ent(n, i).val ELSE -1]])

\* ldpc_code_params, lines 63-83: the arrays flattened row by row
Flatten(arr, n, max_deg) ==
    [k \in 0..(n*max_deg - 1) |-> arr[k \div max_deg][k % max_deg]]

CodeParams(d, vadj, cadj, cvmap, vcmap) ==
    [n_vnodes |-> d.n_vnodes, n_cnodes |-> d.n_cnodes,
     max_vnode_deg |-> d.max_vnode_deg, max_cnode_deg |-> d.max_cnode_deg,
     vnode_deg_list |-> d.vnode_deg_list, cnode_deg_list |-> d.cnode_deg_list,
     vnode_adj_list |-> Flatten(vadj, d.n_vnodes, d.max_vnode_deg),
     cnode_adj_list |-> Flatten(cadj, d.n_cnodes, d.max_cnode_deg),
     cnode_vnode_map |-> Flatten(cvmap, d.n_cnodes, d.max_cnode_deg),
     vnode_cnode_map |-> Flatten(vcmap, d.n_vnodes, d.max_vnode_deg)]

NoParams == [n_vnodes |-> 0]

\* The design file's contents, as far as the builder has read them
NoDesc ==
    [n_vnodes |-> 0, n_cnodes |-> 0, max_vnode_deg |-> 0, max_cnode_deg |-> 0,
     vnode_deg_list |-> <<>>, cnode_deg_list |-> <<>>,
     vnode_rows |-> <<>>, cnode_rows |-> <<>>]

\* Before either function is called
Idle ==
    /\ bpc = "open" /\ desc = NoDesc /\ berr = "none"
    /\ vnode_adj_list = <<>> /\ cnode_adj_list = <<>>
    /\ cnode_vnode_map = <<>> /\ vnode_cnode_map = <<>>

\* lines 29-39: the four header lines, and the adjacency arrays allocated
ReadHeader ==
    /\ bpc = "open"
    /\ \E nv \in 1..MaxNodes, nc \in 1..MaxNodes,
          mv \in 1..MaxDeg, mc \in 1..MaxDeg :
         /\ nv + nc <= MaxNodes
         /\ \E vd \in [0..(nv-1) -> 1..(MaxDeg+1)],
               cd \in [0..(nc-1) -> 1..(MaxDeg+1)] :
              /\ desc' = [n_vnodes |-> nv, n_cnodes |-> nc,
                          max_vnode_deg |-> mv, max_cnode_deg |-> mc,
                          vnode_deg_list |-> vd, cnode_deg_list |-> cd,
                          vnode_rows |-> <<>>, cnode_rows |-> <<>>]
              /\ cnode_adj_list' = MinusOnes(nc, mc)
              /\ vnode_adj_list' = MinusOnes(nv, mv)
    /\ bpc' = "vrows"
    /\ UNCHANGED <<cnode_vnode_map, vnode_cnode_map, berr, params, dvars>>

\* lines 41-43, one pass of the loop: the next variable node's line
ReadVnodeRow ==
    /\ bpc = "vrows"
    /\ Len(desc.vnode_rows) < desc.n_vnodes
    /\ \E tokens \in SeqsOf(0..(desc.n_cnodes+1), 0, MaxDeg) :
         LET vnode_idx == Len(desc.vnode_rows)
             r == AssignRow(desc.max_vnode_deg,
                            desc.vnode_deg_list[vnode_idx], tokens)
         IN  IF r.err # "none"
             THEN /\ bpc' = "raised" /\ berr' = r.err
                  /\ UNCHANGED <<desc, vnode_adj_list>>
             ELSE /\ vnode_adj_list' =
                        [vnode_adj_list EXCEPT ![vnode_idx] = r.val]
                  /\ desc' = [desc EXCEPT
                                !.vnode_rows = Append(@, tokens)]
                  /\ bpc' = IF vnode_idx + 1 < desc.n_vnodes
                            THEN "vrows" ELSE "crows"
                  /\ berr' = berr
    /\ UNCHANGED <<cnode_adj_list, cnode_vnode_map, vnode_cnode_map,
                   params, dvars>>

\* lines 45-47, one pass of the loop: the next check node's line
ReadCnodeRow ==
    /\ bpc = "crows"
    /\ Len(desc.cnode_rows) < desc.n_cnodes
    /\ \E tokens \in SeqsOf(0..(desc.n_vnodes+1), 0, MaxDeg) :
         LET cnode_idx == Len(desc.cnode_rows)
             r == AssignRow(desc.max_cnode_deg,
                            desc.cnode_deg_list[cnode_idx], tokens)
         IN  IF r.err # "none"
             THEN /\ bpc' = "raised" /\ berr' = r.err
                  /\ UNCHANGED <<desc, cnode_adj_list>>
             ELSE /\ cnode_adj_list' =
                        [cnode_adj_list EXCEPT ![cnode_idx] = r.val]
                  /\ desc' = [desc EXCEPT
                                !.cnode_rows = Append(@, tokens)]
                  /\ bpc' = IF cnode_idx + 1 < desc.n_cnodes
                            THEN "crows" ELSE "cvmap"
                  /\ berr' = berr
    /\ UNCHANGED <<vnode_adj_list, cnode_vnode_map, vnode_cnode_map,
                   params, dvars>>

\* lines 49-56: cnode_vnode_map
DeriveCnodeVnodeMap ==
    /\ bpc = "cvmap"
    /\ LET r == DeriveMap(cnode_adj_list, desc.n_cnodes, desc.max_cnode_deg,
                          desc.cnode_deg_list, vnode_adj_list, desc.n_vnodes)
       IN  IF r.err # "none"
           THEN bpc' = "raised" /\ berr' = r.err
                /\ UNCHANGED cnode_vnode_map
           ELSE bpc' = "vcmap" /\ berr' = berr /\ cnode_vnode_map' = r.val
    /\ UNCHANGED <<desc, vnode_adj_list, cnode_adj_list, vnode_cnode_map,
                   params, dvars>>

\* lines 58-60: vnode_cnode_map
DeriveVnodeCnodeMap ==
    /\ bpc = "vcmap"
    /\ LET r == DeriveMap(vnode_adj_list, desc.n_vnodes, desc.max_vnode_deg,
                          desc.vnode_deg_list, cnode_adj_list, desc.n_cnodes)
       IN  IF r.err # "none"
           THEN bpc' = "raised" /\ berr' = r.err
                /\ UNCHANGED vnode_cnode_map
           ELSE bpc' = "return" /\ berr' = berr /\ vnode_cnode_map' = r.val
    /\ UNCHANGED <<desc, vnode_adj_list, cnode_adj_list, cnode_vnode_map,
                   params, dvars>>

\* lines 63-83: the dictionary is filled and returned
ReturnParams ==
    /\ bpc = "return"
    /\ params' = CodeParams(desc, vnode_adj_list, cnode_adj_list,
                            cnode_vnode_map, vnode_cnode_map)
    /\ bpc' = "returned"
    /\ UNCHANGED <<desc, vnode_adj_list, cnode_adj_list, cnode_vnode_map,
                   vnode_cnode_map, berr, dvars>>

-----------------------------------------------------------------------------
(* Floating-point values.                                                  *)

\* fixed-point units to 1.0
ONE == 32768
\* the tabulation step of tanh and arctanh, 1/8
STEP == ONE \div 8

F(n) == [k |-> "fin", v |-> n * ONE]          \* the float n.0
Q(n) == [k |-> "fin", v |-> n * (ONE \div 4)] \* the float n/4
Fin(v) == [k |-> "fin", v |-> v]
NaN == [k |-> "nan", v |-> 0]
PosInf == [k |-> "inf", v |-> 1]
NegInf == [k |-> "inf", v |-> -1]
Inf(s) == IF s < 0 THEN NegInf ELSE PosInf

FNeg(a) == IF a.k = "nan" THEN NaN ELSE [a EXCEPT !.v = -a.v]

FAdd(a, b) ==
    IF a.k = "nan" \/ b.k = "nan" THEN NaN
    ELSE IF a.k = "inf" /\ b.k = "inf" THEN (IF a.v = b.v THEN a ELSE NaN)
    ELSE IF a.k = "inf" THEN a
    ELSE IF b.k = "inf" THEN b
    ELSE Fin(a.v + b.v)

FSub(a, b) == FAdd(a, FNeg(b))

\* |a|*|b| in units of ONE, rounded toward zero
MulMag(a, b) == (a \div ONE) * b + ((a % ONE) * b) \div ONE

FMul(a, b) ==
    IF a.k = "nan" \/ b.k = "nan" THEN NaN
    ELSE IF a.k = "inf" \/ b.k = "inf"
         THEN (IF a.v = 0 \/ b.v = 0 THEN NaN ELSE Inf(Sgn(a.v) * Sgn(b.v)))
    ELSE Fin(Sgn(a.v) * Sgn(b.v) * MulMag(Abs(a.v), Abs(b.v)))

\* |a|/|b| in units of ONE, rounded toward zero (b # 0)
DivMag(a, b) == (a \div b) * ONE + ((a % b) * ONE) \div b

\* numpy float64 division: x/0 is +-inf and 0/0 is nan (a warning, no error)
FDiv(a, b) ==
    IF a.k = "nan" \/ b.k = "nan" THEN NaN
    ELSE IF a.k = "inf" THEN (IF b.k = "inf" THEN NaN
                              ELSE Inf(a.v * (IF b.v < 0 THEN -1 ELSE 1)))
    ELSE IF b.k = "inf" THEN Fin(0)
    ELSE IF b.v = 0 THEN (IF a.v = 0 THEN NaN ELSE Inf(Sgn(a.v)))
    ELSE Fin(Sgn(a.v) * Sgn(b.v) * DivMag(Abs(a.v), Abs(b.v)))

\* a > b and a < b: False whenever an operand is NaN
FGt(a, b) ==
    /\ a.k # "nan" /\ b.k # "nan"
    /\ IF a.k = "inf" THEN a.v > 0 /\ b # a
       ELSE IF b.k = "inf" THEN b.v < 0
       ELSE a.v > b.v

FLt(a, b) == FGt(b, a)

\* floor(ONE * tanh(k/8)) for k = 0..45; tanh(45/8) is the first to reach the
\* largest value below 1.0
TanhTab ==
    <<0, 4074, 8025, 11742, 15142, 18173, 20812, 23065, 24955, 26519, 27796,
      28830, 29659, 30321, 30846, 31262, 31589, 31846, 32047, 32205, 32329,
      32425, 32501, 32560, 32605, 32641, 32669, 32691, 32708, 32721, 32731,
      32739, 32746, 32750, 32754, 32757, 32759, 32761, 32763, 32764, 32765,
      32765, 32766, 32766, 32766, 32767>>
TabLast == Len(TanhTab) - 1

\* the largest |z| whose tanh binary64 rounds below 1.0: tanh(19.0) is
\* 1 - 2^-53, tanh(19.125) is 1.0
TANH_SAT == 19 * ONE

\* np.tanh
Tanh(a) ==
    IF a.k = "nan" THEN NaN
    ELSE IF a.k = "inf" THEN Fin(a.v * ONE)
    ELSE LET m == Abs(a.v)
             idx == m \div STEP
         IN  Fin(Sgn(a.v) * (IF m > TANH_SAT THEN ONE
                             ELSE IF idx >= TabLast THEN TanhTab[TabLast + 1]
                             ELSE TanhTab[idx + 1]))

\* np.arctanh: nan outside [-1, 1] and +-inf at +-1 (warnings, no error);
\* inside, the least tabulated z whose tanh is nearest to |y|
Arctanh(a) ==
    IF a.k # "fin" THEN NaN
    ELSE LET m == Abs(a.v)
         IN  IF m > ONE THEN NaN
             ELSE IF m = ONE THEN Inf(a.v)
             ELSE LET dist(k) == Abs(TanhTab[k+1] - m)
                      best == Min({dist(k) : k \in 0..TabLast})
                      idx == Min({k \in 0..TabLast : dist(k) = best})
                  IN  Fin(Sgn(a.v) * idx * STEP)

\* Storing a float into an array of int: int(x), truncated toward zero;
\* int(nan) raises ValueError and int(+-inf) OverflowError
ToInt(a) ==
    IF a.k = "nan" THEN Raise("ValueError")
    ELSE IF a.k = "inf" THEN Raise("OverflowError")
    ELSE Ok(Sgn(a.v) * (Abs(a.v) \div ONE))

MAX_POS_LLR == F(38)
MIN_NEG_LLR == F(-38)

\* _limit_llr, lines 85-95
_limit_llr(in_llr) ==
    LET out1 == IF FGt(in_llr, MAX_POS_LLR) THEN MAX_POS_LLR ELSE in_llr
    IN  IF FLt(in_llr, MIN_NEG_LLR) THEN MIN_NEG_LLR ELSE out1

-----------------------------------------------------------------------------
(* ldpc_bp_decode (ldpc.py lines 98-207), on the dictionary params.        *)

VNodes == 0..(params.n_vnodes - 1)
CNodes == 0..(params.n_cnodes - 1)

\* np.zeros(n), np.zeros(n, int)
ZerosF(n) == [k \in 0..(n-1) |-> Fin(0)]
ZerosI(n) == [k \in 0..(n-1) |-> 0]

\* cnode_idx*max_cnode_deg + i and vnode_idx*max_vnode_deg + i
CSlot(c, i) == c * params.max_cnode_deg + i

VSlot(v, i) == v * params.max_vnode_deg + i

\* lines 160-161, 166-167: the message check node c receives on its edge i,
\* vnode_msgs[vnode*max_vnode_deg + cnode_vnode_map[cnode_idx*max_cnode_deg + i]]
InMsgC(c, i, vm) ==
    vm[params.cnode_adj_list[CSlot(c, i)] * params.max_vnode_deg
         + params.cnode_vnode_map[CSlot(c, i)]]

\* lines 157-161: msg_prod after the first n edges of check node c
RECURSIVE MsgProd(_, _, _)
MsgProd(c, n, vm) ==
    IF n = 0 THEN F(1)
    ELSE FMul(MsgProd(c, n - 1, vm), Tanh(FDiv(InMsgC(c, n - 1, vm), F(2))))

\* lines 166-167: c_msg on edge i
CMsg(c, i, vm) ==
    FMul(F(2), Arctanh(FDiv(MsgProd(c, params.cnode_deg_list[c], vm),
                            Tanh(FDiv(InMsgC(c, i, vm), F(2))))))

\* lines 157-168: the body of the check-node loop for cnode_idx = c
\* (CnodeUpdateNoStride is the variant that writes slot i, without the
\* stride cnode_idx*max_cnode_deg.)
CnodeUpdateNoStride(c, vm, cm) ==
    [k \in DOMAIN cm |->
       IF k < params.cnode_deg_list[c] THEN CMsg(c, k, vm) ELSE cm[k]]

CnodeUpdate(c, vm, cm) ==
    [k \in DOMAIN cm |->
       IF \E i \in 0..(params.cnode_deg_list[c] - 1) : k = CSlot(c, i)
       THEN CMsg(c, CHOOSE i \in 0..(params.cnode_deg_list[c] - 1) :
                         k = CSlot(c, i), vm)
       ELSE cm[k]]

\* lines 178, 183: the message variable node v receives on its edge i,
\* cnode_msgs[cnode*max_cnode_deg + vnode_cnode_map[vnode_idx*max_vnode_deg + i]]
InMsgV(v, i, cm) ==
    cm[CSlot(params.vnode_adj_list[VSlot(v, i)],
             params.vnode_cnode_map[VSlot(v, i)])]

\* lines 174-178: msg_sum after the first n edges of variable node v
RECURSIVE MsgSum(_, _, _)
MsgSum(v, n, cm) ==
    IF n = 0 THEN Fin(0)
    ELSE FAdd(MsgSum(v, n - 1, cm), InMsgV(v, n - 1, cm))

\* line 183: v_msg on edge i
VMsg(v, i, llr, cm) ==
    _limit_llr(FSub(FAdd(llr[v + 1], MsgSum(v, params.vnode_deg_list[v], cm)),
                    InMsgV(v, i, cm)))

\* line 187: the value stored into out_llrs[vnode_idx], an array of int
OutLLR(v, llr, cm) ==
    ToInt(FAdd(llr[v + 1], MsgSum(v, params.vnode_deg_list[v], cm)))

\* lines 188-191, on the int just stored
HardDecision(out) == IF out > 0 THEN 0 ELSE 1

\* lines 174-191: the body of the variable-node loop for vnode_idx = v.
\* The messages are stored before out_llrs (which may raise).
VnodeUpdate(v, llr, cm, vm, out, dw) ==
    LET o == OutLLR(v, llr, cm)
        vm2 == [k \in DOMAIN vm |->
                  IF \E i \in 0..(params.vnode_deg_list[v] - 1) : k = VSlot(v, i)
                  THEN VMsg(v, CHOOSE i \in 0..(params.vnode_deg_list[v] - 1) :
                                    k = VSlot(v, i), llr, cm)
                  ELSE vm[k]]
    IN  IF o.err # "none"
        THEN [err |-> o.err, vm |-> vm2, out |-> out, dw |-> dw]
        ELSE [err |-> "none", vm |-> vm2,
              out |-> [out EXCEPT ![v] = o.val],
              dw |-> [dw EXCEPT ![v] = HardDecision(o.val)]]

\* lines 195-197: p_sum of check node c
RECURSIVE PSum(_, _, _)
PSum(c, n, dw) ==
    IF n = 0 THEN 0
    ELSE (PSum(c, n - 1, dw) + dw[params.cnode_adj_list[CSlot(c, n - 1)]]) % 2

\* lines 148, 193-201: continue_flag at the end of an iteration
\* (ContinueFlagFirstCheckOnly is the variant that looks at check node 0
\* only.)
ContinueFlagFirstCheckOnly(dw) ==
    IF PSum(0, params.cnode_deg_list[0], dw) # 0 THEN 1 ELSE 0

ContinueFlag(dw) ==
    IF \E c \in CNodes : PSum(c, params.cnode_deg_list[c], dw) # 0
    THEN 1 ELSE 0

Snapshot == [vnode_msgs |-> vnode_msgs, cnode_msgs |-> cnode_msgs,
             dec_word |-> dec_word, out_llrs |-> out_llrs]
NoSnap == [cphase |-> <<>>, vphase |-> <<>>]

-----------------------------------------------------------------------------
(* The inputs of decode runs *)

Range(f) == {f[x] : x \in DOMAIN f}
InjSeqs(S, lo, hi) ==
    {q \in SeqsOf(S, lo, hi) : \A i, j \in DOMAIN q : q[i] = q[j] => i = j}

IncSeqs(S, lo, hi) ==
    {q \in SeqsOf(S, lo, hi) : \A i, j \in DOMAIN q : i < j => q[i] < q[j]}

\* The descriptions of the simple bipartite graphs on nv variable nodes and
\* nc check nodes in which every node has an edge: each line lists the
\* node's neighbours (1-based), a variable node's in any order and a check
\* node's in increasing order; the declared degrees are the lines' lengths
\* and the declared maxima the largest degrees.
ValidDescs(nv, nc) ==
    {[n_vnodes |-> nv, n_cnodes |-> nc,
      max_vnode_deg |-> Max({Len(vr[v]) : v \in 0..(nv-1)}),
      max_cnode_deg |-> Max({Len(cr[c]) : c \in 0..(nc-1)}),
      vnode_deg_list |-> [v \in 0..(nv-1) |-> Len(vr[v])],
      cnode_deg_list |-> [c \in 0..(nc-1) |-> Len(cr[c])],
      vnode_rows |-> [i \in 1..nv |-> vr[i-1]],
      cnode_rows |-> [i \in 1..nc |-> cr[i-1]]] :
        vr \in [0..(nv-1) -> InjSeqs(1..nc, 1, nc)],
        cr \in [0..(nc-1) -> IncSeqs(1..nv, 1, nv)]}

\* get_ldpc_code_params as a function of the whole description
GraphOf(d) ==
    LET vadj == [v \in 0..(d.n_vnodes-1) |->
                   AssignRow(d.max_vnode_deg, d.vnode_deg_list[v],
                             d.vnode_rows[v+1]).val]
        cadj == [c \in 0..(d.n_cnodes-1) |->
                   AssignRow(d.max_cnode_deg, d.cnode_deg_list[c],
                             d.cnode_rows[c+1]).val]
        cv == DeriveMap(cadj, d.n_cnodes, d.max_cnode_deg, d.cnode_deg_list,
                        vadj, d.n_vnodes)
        vc == DeriveMap(vadj, d.n_vnodes, d.max_vnode_deg, d.vnode_deg_list,
                        cadj, d.n_cnodes)
    IN  IF cv.err # "none" \/ vc.err # "none" THEN NoParams
        ELSE CodeParams(d, vadj, cadj, cv.val, vc.val)

\* The dictionaries the builder returns for them
ValidGraphs ==
    UNION {{GraphOf(d) : d \in ValidDescs(nv, nc)} \ {NoParams} :
             nv \in 1..MaxV, nc \in 1..MaxC}

\* The channel LLRs of the runs: 0, 1/4, +-10 and 100
LLRVals == {F(0), Q(1), F(10), F(-10), F(100)}

\* llr_vec: every vector of the right length, the vectors one short, and one
\* vector that is one long
LLRVecs(n) == SeqsOf(LLRVals, n - 1, n) \cup {[i \in 1..(n+1) |-> F(10)]}

-----------------------------------------------------------------------------
(* The steps of ldpc_bp_decode *)

DIdle ==
    /\ llr_vec = <<>> /\ n_iters = 0 /\ iter_cnt = -1 /\ todo = {}
    /\ vnode_msgs = <<>> /\ cnode_msgs = <<>> /\ dec_word = <<>>
    /\ out_llrs = <<>> /\ err = "none" /\ snap = NoSnap

\* lines 122-143: the arrays are allocated and vnode_msgs is initialized.
\* llr_vec[vnode_idx] raises IndexError at the first index beyond llr_vec.
Call ==
    /\ pc = "call"
    /\ \E llr \in LLRVecs(params.n_vnodes), n \in 0..MaxIters :
         /\ llr_vec' = llr
         /\ n_iters' = n
         /\ vnode_msgs' =
              [k \in 0..(params.n_vnodes * params.max_vnode_deg - 1) |->
                 LET v == k \div params.max_vnode_deg
                     i == k % params.max_vnode_deg
                 IN  IF i < params.vnode_deg_list[v] /\ v < Len(llr)
                     THEN llr[v + 1] ELSE Fin(0)]
         /\ IF Len(llr) < params.n_vnodes
            THEN pc' = "raised" /\ err' = "IndexError"
            ELSE pc' = "for" /\ err' = err
    /\ dec_word' = ZerosI(params.n_vnodes)
    /\ out_llrs' = ZerosI(params.n_vnodes)
    /\ cnode_msgs' = ZerosF(params.n_cnodes * params.max_cnode_deg)
    /\ UNCHANGED <<bvars, params, iter_cnt, todo, snap>>

\* line 146: the next value of xrange(n_iters), or the end of the loop
For ==
    /\ pc = "for"
    /\ IF iter_cnt + 1 < n_iters
       THEN /\ iter_cnt' = iter_cnt + 1
            /\ pc' = "cnode"
            /\ todo' = CNodes
            /\ snap' = [cphase |-> Snapshot, vphase |-> <<>>]
       ELSE /\ pc' = "return"
            /\ UNCHANGED <<iter_cnt, todo, snap>>
    /\ UNCHANGED <<bvars, params, llr_vec, n_iters, vnode_msgs, cnode_msgs,
                   dec_word, out_llrs, err>>

\* lines 151-168, one pass of the loop, for cnode_idx = c
CnodeStep(c) ==
    /\ pc = "cnode"
    /\ c \in todo
    /\ cnode_msgs' = CnodeUpdate(c, vnode_msgs, cnode_msgs)
    /\ IF todo = {c}
       THEN /\ pc' = "vnode"
            /\ todo' = VNodes
            /\ snap' = [snap EXCEPT !.vphase =
                          [Snapshot EXCEPT !.cnode_msgs = cnode_msgs']]
       ELSE /\ pc' = pc
            /\ todo' = todo \ {c}
            /\ snap' = snap
    /\ UNCHANGED <<bvars, params, llr_vec, n_iters, iter_cnt, vnode_msgs,
                   dec_word, out_llrs, err>>

\* lines 172-191, one pass of the loop, for vnode_idx = v
VnodeStep(v) ==
    /\ pc = "vnode"
    /\ v \in todo
    /\ LET r == VnodeUpdate(v, llr_vec, cnode_msgs, vnode_msgs, out_llrs,
                            dec_word)
       IN  /\ vnode_msgs' = r.vm
           /\ out_llrs' = r.out
           /\ dec_word' = r.dw
           /\ IF r.err # "none"
              THEN pc' = "raised" /\ err' = r.err /\ todo' = todo
              ELSE /\ err' = err
                   /\ todo' = todo \ {v}
                   /\ pc' = IF todo = {v} THEN "parity" ELSE pc
    /\ UNCHANGED <<bvars, params, llr_vec, n_iters, iter_cnt, cnode_msgs,
                   snap>>

\* the loops of lines 151 and 172 take the nodes in increasing order
CheckNodeUpdate == pc = "cnode" /\ CnodeStep(Min(todo))

VariableNodeUpdate == pc = "vnode" /\ VnodeStep(Min(todo))

\* lines 193-205: the parity checks, then break or the next iteration
ParityCheck ==
    /\ pc = "parity"
    /\ pc' = IF ContinueFlag(dec_word) = 0 THEN "return" ELSE "for"
    /\ UNCHANGED <<bvars, params, llr_vec, n_iters, iter_cnt, todo,
                   vnode_msgs, cnode_msgs, dec_word, out_llrs, err, snap>>

\* line 207
Return ==
    /\ pc = "return"
    /\ pc' = "returned"
    /\ UNCHANGED <<bvars, params, llr_vec, n_iters, iter_cnt, todo,
                   vnode_msgs, cnode_msgs, dec_word, out_llrs, err, snap>>

-----------------------------------------------------------------------------
(* Specifications *)

\* get_ldpc_code_params on any description within the bounds
InitBuild == Idle /\ params = NoParams /\ pc = "idle" /\ DIdle

NextBuild ==
    \/ ReadHeader
    \/ ReadVnodeRow
    \/ ReadCnodeRow
    \/ DeriveCnodeVnodeMap
    \/ DeriveVnodeCnodeMap
    \/ ReturnParams

SpecBuild == InitBuild /\ [][NextBuild]_vars

\* ldpc_bp_decode on the graph of any valid description
Init == Idle /\ params \in ValidGraphs /\ pc = "call" /\ DIdle

Next ==
    \/ Call
    \/ For
    \/ CheckNodeUpdate
    \/ VariableNodeUpdate
    \/ ParityCheck
    \/ Return

Spec == Init /\ [][Next]_vars

\* ldpc_bp_decode with the nodes of a phase taken in any order
CheckNodeUpdateAny == \E c \in todo : CnodeStep(c)

VariableNodeUpdateAny == \E v \in todo : VnodeStep(v)

NextFlood ==
    \/ Call
    \/ For
    \/ CheckNodeUpdateAny
    \/ VariableNodeUpdateAny
    \/ ParityCheck
    \/ Return

SpecFlood == Init /\ [][NextFlood]_vars

-----------------------------------------------------------------------------
(* Properties of ldpc_bp_decode *)

\* the call has begun / has begun on arguments that meet the preconditions
Called == pc \notin {"idle", "call"}
ValidCall == Called /\ Len(llr_vec) = params.n_vnodes /\ n_iters >= 1

LiveV(v) == 0..(params.vnode_deg_list[v] - 1)
LiveC(c) == 0..(params.cnode_deg_list[c] - 1)

\* the number of iterations of the main loop that have begun
ItersRun == iter_cnt + 1

\* a float within [MIN_NEG_LLR, MAX_POS_LLR]
InClipRange(x) == x.k = "fin" /\ -38 * ONE <= x.v /\ x.v <= 38 * ONE

\* every check node has an even number of ones among the bits of its
\* neighbours
ParityHolds(bits) ==
    \A c \in CNodes :
        Cardinality({i \in LiveC(c) :
                       bits[params.cnode_adj_list[c * params.max_cnode_deg + i]]
                         = 1}) % 2 = 0

\* the posterior LLR of v: llr_vec[v] plus every incoming check-node message
RECURSIVE SumIn(_, _)
SumIn(v, n) ==
    IF n = 0 THEN Fin(0)
    ELSE FAdd(SumIn(v, n - 1),
              cnode_msgs[params.vnode_adj_list[v * params.max_vnode_deg + n - 1]
                           * params.max_cnode_deg
                         + params.vnode_cnode_map[v * params.max_vnode_deg
                                                    + n - 1]])
Posterior(v) == FAdd(llr_vec[v + 1], SumIn(v, params.vnode_deg_list[v]))

\* C1: in a call that meets the preconditions, every live outgoing
\* variable-node message slot holds a value within [-38.0, +38.0] at every
\* point from the initialization on.
C1_LiveVnodeMsgsWithinClip ==
    (ValidCall /\ pc # "raised") =>
        \A v \in VNodes : \A i \in LiveV(v) :
            InClipRange(vnode_msgs[v * params.max_vnode_deg + i])

\* C2: a call that meets the preconditions never ends in an error and never
\* begins more than n_iters iterations.
C2_ReturnsWithinBudget ==
    ValidCall => (pc # "raised" /\ ItersRun <= n_iters)

\* C3: at the end of an iteration, all parities 0 leads to the return with
\* no further update and the arrays of that iteration; some parity 1 leads
\* to the next iteration while the budget lasts; hence a return after fewer
\* than n_iters iterations carries a dec_word that satisfies every check.
C3_EarlyExitStep ==
    /\ (pc = "parity" /\ ParityHolds(dec_word)) => pc' = "return"
    /\ (pc = "parity" /\ ~ParityHolds(dec_word)) => pc' = "for"
    /\ (pc = "for" /\ ItersRun < n_iters) =>
           (pc' = "cnode" /\ iter_cnt' = iter_cnt + 1)
    /\ (pc = "for" /\ ItersRun >= n_iters) => pc' = "return"
    /\ pc = "return" =>
           (pc' = "returned" /\
            UNCHANGED <<dec_word, out_llrs, vnode_msgs, cnode_msgs, iter_cnt>>)
    /\ pc # "returned"

C3_EarlyTermination ==
    /\ []((pc \in {"return", "returned"} /\ 0 < ItersRun /\ ItersRun < n_iters)
             => ParityHolds(dec_word))
    /\ [][C3_EarlyExitStep]_vars

C3_Witness ==
    /\ pc = "returned" /\ ValidCall
    /\ ItersRun = 1 /\ n_iters = 2
    /\ params.n_cnodes = 2 /\ params.n_vnodes = 3

\* C4: with llr_vec all zero the call ends without an error, after exactly
\* n_iters iterations.
C4_ZeroLLRsExhaustBudget ==
    (ValidCall /\ \A v \in VNodes : llr_vec[v + 1] = Fin(0)) =>
        /\ pc # "raised"
        /\ pc = "returned" => ItersRun = n_iters

\* C5: once the variable-node update of an iteration has handled v,
\* dec_word[v] is 0 if the posterior LLR of v is > 0, and 1 otherwise.
C5_HardDecisionOnPosterior ==
    \A v \in VNodes :
        (ValidCall /\ (pc = "parity" \/ (pc = "vnode" /\ v \notin todo))) =>
            dec_word[v] = (IF FGt(Posterior(v), Fin(0)) THEN 0 ELSE 1)

\* C7: a call with len(llr_vec) # n_vnodes or n_iters < 1 is rejected with
\* an error before any iteration begins.
C7_BadArgumentsRejected ==
    (Called /\ (Len(llr_vec) # params.n_vnodes \/ n_iters < 1)) =>
        (pc = "raised" /\ ItersRun = 0)

\* the hard decisions that the signs of llr_vec stand for
BitsOf(llr) == [v \in VNodes |-> IF llr[v + 1].v < 0 THEN 1 ELSE 0]

\* llr_vec is +10.0 where a codeword has a 0 and -10.0 where it has a 1
MatchesCodeword ==
    /\ \A v \in VNodes : llr_vec[v + 1] \in {F(10), F(-10)}
    /\ ParityHolds(BitsOf(llr_vec))

\* C9: on LLRs of one strong magnitude that match a codeword, the call runs
\* exactly one iteration, leaves through the parity check and returns the
\* codeword.
C9_ZeroNoiseOneIteration ==
    (ValidCall /\ MatchesCodeword) =>
        /\ pc # "raised"
        /\ pc \in {"return", "returned"} =>
               (ItersRun = 1 /\ dec_word = BitsOf(llr_vec))

\* the sequential sweeps of the two phases, from a snapshot
RECURSIVE SeqCnodePhase(_, _)
SeqCnodePhase(s, n) ==
    IF n = 0 THEN s.cnode_msgs
    ELSE CnodeUpdate(n - 1, s.vnode_msgs, SeqCnodePhase(s, n - 1))

RECURSIVE SeqVnodePhase(_, _)
SeqVnodePhase(s, n) ==
    IF n = 0
    THEN [err |-> "none", vm |-> s.vnode_msgs, out |-> s.out_llrs,
          dw |-> s.dec_word]
    ELSE LET r == SeqVnodePhase(s, n - 1)
         IN  IF r.err # "none" THEN r
             ELSE VnodeUpdate(n - 1, llr_vec, s.cnode_msgs, r.vm, r.out, r.dw)

\* C10: a check-node step writes only the live cnode_msgs slots of its node
\* and a variable-node step only the vnode_msgs slots, out_llrs and dec_word
\* entry of its node; in whatever order the nodes of a phase are taken, the
\* phase ends in the state the sequential sweep ends in; a phase that is
\* cut short by an error is one the sequential sweep does not finish either
\* (which node raises first, and so which error, does depend on the order).
C10_StepWritesOwnSlots ==
    /\ pc = "cnode" =>
          /\ UNCHANGED <<vnode_msgs, dec_word, out_llrs>>
          /\ \E c \in todo :
                \A k \in DOMAIN cnode_msgs :
                    cnode_msgs'[k] # cnode_msgs[k] =>
                        \E i \in LiveC(c) : k = c * params.max_cnode_deg + i
    /\ pc = "vnode" =>
          /\ UNCHANGED cnode_msgs
          /\ \E v \in todo :
                /\ \A k \in DOMAIN vnode_msgs :
                      vnode_msgs'[k] # vnode_msgs[k] =>
                          \E i \in LiveV(v) : k = v * params.max_vnode_deg + i
                /\ \A u \in VNodes \ {v} :
                      dec_word'[u] = dec_word[u] /\ out_llrs'[u] = out_llrs[u]

C10_PhaseEndsAsSweep ==
    /\ (pc = "vnode" /\ todo = VNodes) =>
          /\ cnode_msgs = SeqCnodePhase(snap.cphase, params.n_cnodes)
          /\ vnode_msgs = snap.cphase.vnode_msgs
          /\ dec_word = snap.cphase.dec_word
          /\ out_llrs = snap.cphase.out_llrs
    /\ pc = "parity" =>
          LET r == SeqVnodePhase(snap.vphase, params.n_vnodes)
          IN  /\ r.err = "none"
              /\ vnode_msgs = r.vm /\ out_llrs = r.out /\ dec_word = r.dw
              /\ cnode_msgs = snap.vphase.cnode_msgs
    /\ (pc = "raised" /\ ItersRun > 0) =>
          SeqVnodePhase(snap.vphase, params.n_vnodes).err # "none"

C10_OrderIndependence ==
    [] C10_PhaseEndsAsSweep /\ [][C10_StepWritesOwnSlots]_vars

C10_Witness ==
    /\ pc = "parity" /\ ValidCall /\ ItersRun = 2
    /\ params.n_cnodes = 2 /\ params.n_vnodes = 3
    /\ \E k \in DOMAIN cnode_msgs : cnode_msgs[k] # cnode_msgs[0]

-----------------------------------------------------------------------------
(* Properties of get_ldpc_code_params *)

DescV(d) == 0..(d.n_vnodes - 1)
DescC(d) == 0..(d.n_cnodes - 1)
AllRowsRead(d) ==
    Len(d.vnode_rows) = d.n_vnodes /\ Len(d.cnode_rows) = d.n_cnodes

\* a line names a node index outside 1..n
HasOutOfRangeIndex(d) ==
    \/ \E v \in DescV(d) : \E t \in Range(d.vnode_rows[v + 1]) :
           t < 1 \/ t > d.n_cnodes
    \/ \E c \in DescC(d) : \E t \in Range(d.cnode_rows[c + 1]) :
           t < 1 \/ t > d.n_vnodes

\* a declared degree exceeds the declared maximum
HasExcessDegree(d) ==
    \/ \E v \in DescV(d) : d.vnode_deg_list[v] > d.max_vnode_deg
    \/ \E c \in DescC(d) : d.cnode_deg_list[c] > d.max_cnode_deg

\* every line has as many indices as its node's declared degree
RowLengthsMatch(d) ==
    /\ \A v \in DescV(d) : Len(d.vnode_rows[v + 1]) = d.vnode_deg_list[v]
    /\ \A c \in DescC(d) : Len(d.cnode_rows[c + 1]) = d.cnode_deg_list[c]

ValidDescription(d) ==
    /\ AllRowsRead(d) /\ RowLengthsMatch(d)
    /\ ~HasOutOfRangeIndex(d) /\ ~HasExcessDegree(d)

\* C6: in the graph returned for a valid description, every live slot (v, i)
\* leads through vnode_adj/vnode_cnode_map to a live slot (c, j) that leads
\* back to (v, i) through cnode_adj/cnode_vnode_map, and every live slot
\* (c, j) likewise leads to a live slot (v, i) that leads back to (c, j).
C6_MapsRoundTrip ==
    (bpc = "returned" /\ ValidDescription(desc)) =>
        LET g == params
            vs(v, i) == v * g.max_vnode_deg + i
            cs(c, j) == c * g.max_cnode_deg + j
        IN  /\ \A v \in 0..(g.n_vnodes - 1) :
                 \A i \in 0..(g.vnode_deg_list[v] - 1) :
                    LET c == g.vnode_adj_list[vs(v, i)]
                        j == g.vnode_cnode_map[vs(v, i)]
                    IN  /\ c \in 0..(g.n_cnodes - 1)
                        /\ j \in 0..(g.cnode_deg_list[c] - 1)
                        /\ g.cnode_adj_list[cs(c, j)] = v
                        /\ g.cnode_vnode_map[cs(c, j)] = i
            /\ \A c \in 0..(g.n_cnodes - 1) :
                 \A j \in 0..(g.cnode_deg_list[c] - 1) :
                    LET v == g.cnode_adj_list[cs(c, j)]
                        i == g.cnode_vnode_map[cs(c, j)]
                    IN  /\ v \in 0..(g.n_vnodes - 1)
                        /\ i \in 0..(g.vnode_deg_list[v] - 1)
                        /\ g.vnode_adj_list[vs(v, i)] = c
                        /\ g.vnode_cnode_map[vs(v, i)] = j

C6_Witness ==
    /\ bpc = "returned" /\ ValidDescription(desc)
    /\ desc.n_cnodes = 2
    /\ desc.vnode_rows[1] = <<2, 1>>
    /\ params.cnode_vnode_map[0] = 1

\* C8: a description with an out-of-range node index or a degree above the
\* declared maximum makes get_ldpc_code_params fail: no graph is returned.
C8_MalformedDescriptionRejected ==
    (AllRowsRead(desc) /\ (HasOutOfRangeIndex(desc) \/ HasExcessDegree(desc)))
        => bpc \notin {"return", "returned"}

=============================================================================
